---- MODULE Spec2Model ----
(***************************************************************************)
(* Model of overlord/snapstate/snapmgr.go: the SnapManager, its            *)
(* constructor, its six production task handlers, the two test handlers    *)
(* and the Ensure/Wait/Stop forwarding to the task runner.                 *)
(*                                                                         *)
(* Snap names are sequences of one-character strings so that               *)
(* snappy.SplitDeveloper can be computed.  The task payload is kept in the *)
(* store in its serialised form (a JSON object, here a function from the   *)
(* keys that are present to their values) and is decoded by Task.Get.      *)
(***************************************************************************)
EXTENDS Integers, Sequences, FiniteSets, TLC

(***************************************************************************)
(* Bounds                                                                  *)
(***************************************************************************)
NumTasks == 2
MaxNameLen == 3
MaxFlag == 1
MaxCalls == 2

(***************************************************************************)
(* Values                                                                  *)
(***************************************************************************)
Chars == {"f", "b", "."}
Names == UNION {[1..k -> Chars] : k \in 0..MaxNameLen}
Channels == {"", "stable"}
FlagVals == 0..MaxFlag
Versions == {"", "1.0"}

TaskIds == 1..NumTasks
NoTask == 0

ProdKinds == {"install-snap", "update-snap", "remove-snap", "purge-snap",
              "rollback-snap", "set-active-snap"}
FakeKinds == {"fake-install-snap", "fake-install-snap-error"}
Kinds == ProdKinds \cup FakeKinds

ProdHandlers == {"doInstallSnap", "doUpdateSnap", "doRemoveSnap",
                 "doPurgeSnap", "doRollbackSnap", "doSetActiveSnap"}

Nil == "nil"
ErrNoState == "no state entry for key"
ErrDecode == "cannot decode state entry"
ErrBackend == "backend failed"
ErrFakeInstall == "fake-install-snap-error errored"
BackendErrors == {Nil, ErrBackend}
Results == {"nil-result", "snap"}
NoResult == "no-result"

(***************************************************************************)
(* Payload schemas (installState, removeState, purgeState, rollbackState,  *)
(* setActiveState) and their JSON form.                                    *)
(***************************************************************************)
installState == {[name |-> n, channel |-> c, flags |-> f] :
                    n \in Names, c \in Channels, f \in FlagVals}
removeState == {[name |-> n, flags |-> f] : n \in Names, f \in FlagVals}
purgeState == {[name |-> n, flags |-> f] : n \in Names, f \in FlagVals}
rollbackState == {[name |-> n, version |-> v] : n \in Names, v \in Versions}
setActiveState == {[name |-> n, active |-> a] : n \in Names, a \in BOOLEAN}

Fields(type) ==
    CASE type = "installState" -> {"name", "channel", "flags"}
      [] type = "removeState" -> {"name", "flags"}
      [] type = "purgeState" -> {"name", "flags"}
      [] type = "rollbackState" -> {"name", "version"}
      [] type = "setActiveState" -> {"name", "active"}

\* the fields tagged `omitempty`
OmitEmpty(type) ==
    CASE type = "installState" -> {"flags"}
      [] type = "removeState" -> {"flags"}
      [] type = "purgeState" -> {"flags"}
      [] type = "rollbackState" -> {"version"}
      [] type = "setActiveState" -> {}

\* the Go zero value of a field
Zero(field) ==
    CASE field = "name" -> <<>>
      [] field = "channel" -> ""
      [] field = "flags" -> 0
      [] field = "version" -> ""
      [] field = "active" -> FALSE

Structs(type) ==
    CASE type = "installState" -> installState
      [] type = "removeState" -> removeState
      [] type = "purgeState" -> purgeState
      [] type = "rollbackState" -> rollbackState
      [] type = "setActiveState" -> setActiveState

\* json.Marshal of a payload struct: omitempty fields holding their zero
\* value are left out of the object
Encode(type, p) ==
    LET present == {f \in Fields(type) :
                       ~(f \in OmitEmpty(type) /\ p[f] = Zero(f))}
    IN  [f \in present |-> p[f]]

\* json.Unmarshal into a zeroed struct of the given type: keys that are
\* absent leave the zero value, keys the struct does not have are ignored
Decode(type, blob) ==
    [f \in Fields(type) |-> IF f \in DOMAIN blob THEN blob[f] ELSE Zero(f)]

\* the schema under which a task of each kind is enqueued
PayloadType(kind) ==
    CASE kind = "install-snap" -> "installState"
      [] kind = "update-snap" -> "installState"
      [] kind = "remove-snap" -> "removeState"
      [] kind = "purge-snap" -> "purgeState"
      [] kind = "rollback-snap" -> "rollbackState"
      [] kind = "set-active-snap" -> "setActiveState"

(***************************************************************************)
(* snappy.SplitDeveloper: <<base name, developer>>                         *)
(***************************************************************************)
Dots(name) == {i \in 1..Len(name) : name[i] = "."}

LastDot(name) == CHOOSE i \in Dots(name) : \A j \in Dots(name) : j <= i

SplitDeveloper(name) ==
    IF Dots(name) = {}
    THEN <<name, <<>>>>
    ELSE <<SubSeq(name, 1, LastDot(name) - 1),
           SubSeq(name, LastDot(name) + 1, Len(name))>>

(***************************************************************************)
(* State                                                                   *)
(***************************************************************************)
VARIABLES
    m,               \* the SnapManager returned by Manager (its three fields)
    mgrErr,          \* the error returned by Manager
    handlers,        \* the runner's AddHandler calls, in order: <<kind, fn>>
    mgrCalls,        \* number of calls of the manager's Ensure, Wait, Stop
    runnerCalls,     \* number of calls of the runner's Ensure, Wait, Stop
    ensureRet,       \* what the manager's last Ensure returned
    runnerEnsureRet, \* what the runner's last Ensure returned
    tomb,            \* per task: the tomb its handler was given, and how
                     \* many backend calls it had made when it was killed
    data,            \* the store: per task its kind and its "state" entry
    locked,          \* the store's mutex
    owner,           \* the handler invocation that acquired the mutex
    pc,              \* per task: position of its handler invocation
    fn,              \* per task: the handler the runner dispatched it to
    local,           \* per task: the handler's decoded payload variable
    getErr,          \* per task: what t.Get returned
    ret,             \* per task: what the handler returned
    backendRet,      \* per task: what the backend call returned
    calls,           \* per task: the backend calls made, with arguments
    trace            \* per task: the operations performed, in order

mgrVars == <<m, mgrErr, handlers>>
lifeVars == <<mgrCalls, runnerCalls, ensureRet, runnerEnsureRet, tomb>>
storeVars == <<data, locked, owner>>
taskVars == <<pc, fn, local, getErr, ret, backendRet, calls, trace>>
vars == <<mgrVars, lifeVars, storeVars, taskVars>>

Unset == "unset"
NilManager == [state |-> Nil, backend |-> Nil, runner |-> Nil]
NoLocal == [name |-> <<>>]
NoBackendRet == [err |-> Unset, res |-> Unset]
LifecycleOps == {"Ensure", "Wait", "Stop"}
Alive == [dying |-> FALSE, calls |-> 0]
InFlight == {"start", "locked", "got", "unlocked", "backend"}

(***************************************************************************)
(* The tasks found in the store                                            *)
(***************************************************************************)
Absent == [kind |-> Nil, tag |-> "absent"]

\* a task whose "state" entry was never set
NoStateTask(kind) == [kind |-> kind, tag |-> "none"]

\* a task whose "state" entry does not unmarshal into the payload struct
MalformedTask(kind) == [kind |-> kind, tag |-> "malformed"]

\* a task whose "state" entry was set from the payload struct p
PayloadTask(kind, type, p) ==
    [kind |-> kind, tag |-> "ok", blob |-> Encode(type, p)]

CorePayload(type) ==
    CASE type = "installState" ->
             [name |-> <<"f", ".", "b">>, channel |-> "stable", flags |-> 1]
      [] type = "removeState" -> [name |-> <<"f", ".", "b">>, flags |-> 1]
      [] type = "purgeState" -> [name |-> <<"f", ".", "b">>, flags |-> 1]
      [] type = "rollbackState" ->
             [name |-> <<"f", ".", "b">>, version |-> "1.0"]
      [] type = "setActiveState" ->
             [name |-> <<"f", ".", "b">>, active |-> TRUE]

\* every task the single-task runs start from
RichTasks ==
    UNION {{PayloadTask(k, PayloadType(k), p) : p \in Structs(PayloadType(k))}
              \cup {NoStateTask(k), MalformedTask(k)} : k \in ProdKinds}
    \cup UNION {{NoStateTask(k),
                 PayloadTask(k, "installState", CorePayload("installState"))} :
                    k \in FakeKinds}

\* every task the concurrent runs start from: the six handlers run the same
\* steps on the store, so these runs take a payload for a handler whose
\* backend method returns a result object, a payload for a handler that
\* splits the name, and a task whose Get fails
CoreKinds == {"install-snap", "remove-snap"}

CoreTasks ==
    {PayloadTask(k, PayloadType(k), CorePayload(PayloadType(k))) :
        k \in CoreKinds}
    \cup {NoStateTask("install-snap")}

Tasks == {t \in TaskIds : data[t].tag # "absent"}

(***************************************************************************)
(* state.Task.Get("state", &v) for a v of the given struct type            *)
(***************************************************************************)
Get(t, type) ==
    CASE data[t].tag = "none" -> [err |-> ErrNoState, val |-> NoLocal]
      [] data[t].tag = "malformed" -> [err |-> ErrDecode, val |-> NoLocal]
      [] data[t].tag = "ok" ->
             [err |-> Nil, val |-> Decode(type, data[t].blob)]

(***************************************************************************)
(* Init: nothing constructed yet, the tasks are in the store               *)
(***************************************************************************)
InitManager ==
    /\ m = NilManager
    /\ mgrErr = Unset
    /\ handlers = <<>>
    /\ mgrCalls = [o \in LifecycleOps |-> 0]
    /\ runnerCalls = [o \in LifecycleOps |-> 0]
    /\ ensureRet = Unset
    /\ runnerEnsureRet = Unset
    /\ tomb = [t \in TaskIds |-> Alive]

InitTasks ==
    /\ locked = FALSE
    /\ owner = NoTask
    /\ pc = [t \in TaskIds |-> "idle"]
    /\ fn = [t \in TaskIds |-> Nil]
    /\ local = [t \in TaskIds |-> NoLocal]
    /\ getErr = [t \in TaskIds |-> Unset]
    /\ ret = [t \in TaskIds |-> Unset]
    /\ backendRet = [t \in TaskIds |-> NoBackendRet]
    /\ calls = [t \in TaskIds |-> <<>>]
    /\ trace = [t \in TaskIds |-> <<>>]

\* one task, any payload
InitSingle ==
    \E d \in RichTasks : data = [t \in TaskIds |-> IF t = 1 THEN d ELSE Absent]

\* handlers do not depend on the identity of their task, so of the
\* assignments of tasks to ids that differ by a permutation only the one
\* ordered by kind and entry is kept
KindOrder ==
    <<"install-snap", "update-snap", "remove-snap", "purge-snap",
      "rollback-snap", "set-active-snap", "fake-install-snap",
      "fake-install-snap-error">>

Rank(task) ==
    2 * (CHOOSE i \in 1..Len(KindOrder) : KindOrder[i] = task.kind)
      + (IF task.tag = "ok" THEN 1 ELSE 0)

\* NumTasks tasks, one payload per kind
InitConcurrent ==
    /\ data \in [TaskIds -> CoreTasks]
    /\ \A t \in TaskIds \ {NumTasks} : Rank(data[t]) <= Rank(data[t + 1])

Init ==
    /\ InitManager
    /\ InitTasks
    /\ (InitSingle \/ InitConcurrent)

(***************************************************************************)
(* Manager: the constructor                                                *)
(***************************************************************************)
\* variant: remove-snap and purge-snap registered with each other's handler
HandlerTableSwapped ==
    << <<"install-snap", "doInstallSnap">>,
       <<"update-snap", "doUpdateSnap">>,
       <<"remove-snap", "doPurgeSnap">>,
       <<"purge-snap", "doRemoveSnap">>,
       <<"rollback-snap", "doRollbackSnap">>,
       <<"set-active-snap", "doSetActiveSnap">>,
       <<"fake-install-snap", "fakeInstallSnap">>,
       <<"fake-install-snap-error", "fakeInstallSnapError">> >>

\* variant: remove-snap registered twice, purge-snap never
HandlerTableDuplicate ==
    << <<"install-snap", "doInstallSnap">>,
       <<"update-snap", "doUpdateSnap">>,
       <<"remove-snap", "doRemoveSnap">>,
       <<"remove-snap", "doPurgeSnap">>,
       <<"rollback-snap", "doRollbackSnap">>,
       <<"set-active-snap", "doSetActiveSnap">>,
       <<"fake-install-snap", "fakeInstallSnap">>,
       <<"fake-install-snap-error", "fakeInstallSnapError">> >>

HandlerTable ==
    << <<"install-snap", "doInstallSnap">>,
       <<"update-snap", "doUpdateSnap">>,
       <<"remove-snap", "doRemoveSnap">>,
       <<"purge-snap", "doPurgeSnap">>,
       <<"rollback-snap", "doRollbackSnap">>,
       <<"set-active-snap", "doSetActiveSnap">>,
       <<"fake-install-snap", "fakeInstallSnap">>,
       <<"fake-install-snap-error", "fakeInstallSnapError">> >>

\* variant: the constructor leaves the test handlers unregistered
ManagerWithoutTestHandlers ==
    /\ m = NilManager
    /\ m' = [state |-> "s", backend |-> "defaultBackend", runner |-> "runner"]
    /\ handlers' = handlers \o SubSeq(HandlerTable, 1, 6)
    /\ mgrErr' = Nil
    /\ UNCHANGED <<lifeVars, storeVars, taskVars>>

Manager ==
    /\ m = NilManager
    /\ m' = [state |-> "s", backend |-> "defaultBackend", runner |-> "runner"]
    /\ handlers' = handlers \o HandlerTable
    /\ mgrErr' = Nil
    /\ UNCHANGED <<lifeVars, storeVars, taskVars>>

(***************************************************************************)
(* The task runner: dispatch of a runnable task to its kind's handler      *)
(***************************************************************************)
Registrations(kind) == {i \in 1..Len(handlers) : handlers[i][1] = kind}

HandlerOf(kind) ==
    LET idx == Registrations(kind)
    IN  handlers[CHOOSE i \in idx : \A j \in idx : j <= i][2]

RunnerStart(t) ==
    /\ t \in Tasks
    /\ pc[t] = "idle"
    /\ runnerCalls["Ensure"] > 0
    /\ runnerCalls["Stop"] = 0
    /\ Registrations(data[t].kind) # {}
    /\ fn' = [fn EXCEPT ![t] = HandlerOf(data[t].kind)]
    /\ pc' = [pc EXCEPT ![t] = "start"]
    /\ UNCHANGED <<mgrVars, lifeVars, storeVars,
                   local, getErr, ret, backendRet, calls, trace>>

(***************************************************************************)
(* The steps of a production handler                                       *)
(***************************************************************************)
Log(t, op) == trace' = [trace EXCEPT ![t] = Append(@, op)]

\* t.State().Lock(): blocks while the mutex is held
StateLock(t) ==
    /\ pc[t] = "start"
    /\ ~locked
    /\ locked' = TRUE
    /\ owner' = t
    /\ pc' = [pc EXCEPT ![t] = "locked"]
    /\ Log(t, "Lock")
    /\ UNCHANGED <<mgrVars, lifeVars, data,
                   fn, local, getErr, ret, backendRet, calls>>

\* variant: the handler clears the task's entry once it has read it
TaskGetWritesBack(t, type) ==
    /\ pc[t] = "locked"
    /\ LET g == Get(t, type)
       IN  /\ getErr' = [getErr EXCEPT ![t] = g.err]
           /\ IF g.err # Nil
              THEN /\ ret' = [ret EXCEPT ![t] = g.err]
                   /\ pc' = [pc EXCEPT ![t] = "done"]
                   /\ UNCHANGED <<local, data>>
              ELSE /\ local' = [local EXCEPT ![t] = g.val]
                   /\ pc' = [pc EXCEPT ![t] = "got"]
                   /\ data' = [data EXCEPT ![t] = NoStateTask(data[t].kind)]
                   /\ UNCHANGED ret
    /\ Log(t, "Get")
    /\ UNCHANGED <<mgrVars, lifeVars, locked, owner, fn, backendRet, calls>>

\* variant: a Get error is swallowed, the handler returns nil
TaskGetSwallow(t, type) ==
    /\ pc[t] = "locked"
    /\ LET g == Get(t, type)
       IN  /\ getErr' = [getErr EXCEPT ![t] = g.err]
           /\ IF g.err # Nil
              THEN /\ ret' = [ret EXCEPT ![t] = Nil]
                   /\ pc' = [pc EXCEPT ![t] = "done"]
                   /\ UNCHANGED local
              ELSE /\ local' = [local EXCEPT ![t] = g.val]
                   /\ pc' = [pc EXCEPT ![t] = "got"]
                   /\ UNCHANGED ret
    /\ Log(t, "Get")
    /\ UNCHANGED <<mgrVars, lifeVars, storeVars, fn, backendRet, calls>>

\* if err := t.Get("state", &v); err != nil { return err }
TaskGet(t, type) ==
    /\ pc[t] = "locked"
    /\ LET g == Get(t, type)
       IN  /\ getErr' = [getErr EXCEPT ![t] = g.err]
           /\ IF g.err # Nil
              THEN /\ ret' = [ret EXCEPT ![t] = g.err]
                   /\ pc' = [pc EXCEPT ![t] = "done"]
                   /\ UNCHANGED local
              ELSE /\ local' = [local EXCEPT ![t] = g.val]
                   /\ pc' = [pc EXCEPT ![t] = "got"]
                   /\ UNCHANGED ret
    /\ Log(t, "Get")
    /\ UNCHANGED <<mgrVars, lifeVars, storeVars, fn, backendRet, calls>>

\* variant: the Unlock before the backend call is missing
StateUnlockMissing(t) ==
    /\ pc[t] = "got"
    /\ pc' = [pc EXCEPT ![t] = "unlocked"]
    /\ UNCHANGED <<mgrVars, lifeVars, storeVars,
                   fn, local, getErr, ret, backendRet, calls, trace>>

\* t.State().Unlock()
StateUnlock(t) ==
    /\ pc[t] = "got"
    /\ locked' = FALSE
    /\ owner' = NoTask
    /\ pc' = [pc EXCEPT ![t] = "unlocked"]
    /\ Log(t, "Unlock")
    /\ UNCHANGED <<mgrVars, lifeVars, data,
                   fn, local, getErr, ret, backendRet, calls>>

\* variant: the handler gives up instead of calling the backend when its
\* tomb is dying
BackendCallUnlessDying(t, call) ==
    /\ pc[t] = "unlocked"
    /\ IF tomb[t].dying
       THEN /\ ret' = [ret EXCEPT ![t] = "tomb: dying"]
            /\ pc' = [pc EXCEPT ![t] = "done"]
            /\ Log(t, "return")
            /\ UNCHANGED calls
       ELSE /\ calls' = [calls EXCEPT ![t] = Append(@, call)]
            /\ pc' = [pc EXCEPT ![t] = "backend"]
            /\ Log(t, call.method)
            /\ UNCHANGED ret
    /\ UNCHANGED <<mgrVars, lifeVars, storeVars,
                   fn, local, getErr, backendRet>>

\* m.backend.<method>(args..., &progress.NullProgress{}) is entered
\* variant: the backend method is called a second time (a retry)
BackendCallTwice(t, call) ==
    /\ pc[t] = "unlocked"
    /\ calls' = [calls EXCEPT ![t] = Append(Append(@, call), call)]
    /\ pc' = [pc EXCEPT ![t] = "backend"]
    /\ trace' = [trace EXCEPT ![t] = Append(Append(@, call.method), call.method)]
    /\ UNCHANGED <<mgrVars, lifeVars, storeVars,
                   fn, local, getErr, ret, backendRet>>

BackendCall(t, call) ==
    /\ pc[t] = "unlocked"
    /\ calls' = [calls EXCEPT ![t] = Append(@, call)]
    /\ pc' = [pc EXCEPT ![t] = "backend"]
    /\ Log(t, call.method)
    /\ UNCHANGED <<mgrVars, lifeVars, storeVars,
                   fn, local, getErr, ret, backendRet>>

\* variant: a non-nil result object makes the handler succeed
BackendReturnResultWins(t, results) ==
    /\ pc[t] = "backend"
    /\ \E err \in BackendErrors, res \in results :
          /\ backendRet' = [backendRet EXCEPT ![t] = [err |-> err, res |-> res]]
          /\ ret' = [ret EXCEPT ![t] = IF res = "snap" THEN Nil ELSE err]
    /\ pc' = [pc EXCEPT ![t] = "done"]
    /\ Log(t, "return")
    /\ UNCHANGED <<mgrVars, lifeVars, storeVars, fn, local, getErr, calls>>

\* the backend call returns (result, err) or err; the handler returns err
BackendReturn(t, results) ==
    /\ pc[t] = "backend"
    /\ \E err \in BackendErrors, res \in results :
          /\ backendRet' = [backendRet EXCEPT ![t] = [err |-> err, res |-> res]]
          /\ ret' = [ret EXCEPT ![t] = err]
    /\ pc' = [pc EXCEPT ![t] = "done"]
    /\ Log(t, "return")
    /\ UNCHANGED <<mgrVars, lifeVars, storeVars, fn, local, getErr, calls>>

(***************************************************************************)
(* The six production handlers                                             *)
(***************************************************************************)
doInstallSnap(t) ==
    /\ fn[t] = "doInstallSnap"
    /\ \/ StateLock(t)
       \/ TaskGet(t, "installState")
       \/ StateUnlock(t)
       \/ BackendCall(t, [method |-> "Install", name |-> local[t].name,
                          channel |-> local[t].channel,
                          flags |-> local[t].flags])
       \/ BackendReturn(t, Results)

doUpdateSnap(t) ==
    /\ fn[t] = "doUpdateSnap"
    /\ \/ StateLock(t)
       \/ TaskGet(t, "installState")
       \/ StateUnlock(t)
       \/ BackendCall(t, [method |-> "Update", name |-> local[t].name,
                          channel |-> local[t].channel,
                          flags |-> local[t].flags])
       \/ BackendReturn(t, {NoResult})

\* variant: the qualified name is passed on unsplit
doRemoveSnapNoSplit(t) ==
    /\ fn[t] = "doRemoveSnap"
    /\ \/ StateLock(t)
       \/ TaskGet(t, "removeState")
       \/ StateUnlock(t)
       \/ BackendCall(t, [method |-> "Remove", name |-> local[t].name,
                          flags |-> local[t].flags])
       \/ BackendReturn(t, {NoResult})

doRemoveSnap(t) ==
    /\ fn[t] = "doRemoveSnap"
    /\ \/ StateLock(t)
       \/ TaskGet(t, "removeState")
       \/ StateUnlock(t)
       \/ BackendCall(t, [method |-> "Remove",
                          name |-> SplitDeveloper(local[t].name)[1],
                          flags |-> local[t].flags])
       \/ BackendReturn(t, {NoResult})

doPurgeSnap(t) ==
    /\ fn[t] = "doPurgeSnap"
    /\ \/ StateLock(t)
       \/ TaskGet(t, "purgeState")
       \/ StateUnlock(t)
       \/ BackendCall(t, [method |-> "Purge",
                          name |-> SplitDeveloper(local[t].name)[1],
                          flags |-> local[t].flags])
       \/ BackendReturn(t, {NoResult})

doRollbackSnap(t) ==
    /\ fn[t] = "doRollbackSnap"
    /\ \/ StateLock(t)
       \/ TaskGet(t, "rollbackState")
       \/ StateUnlock(t)
       \/ BackendCall(t, [method |-> "Rollback",
                          name |-> SplitDeveloper(local[t].name)[1],
                          version |-> local[t].version])
       \/ BackendReturn(t, Results)

\* variant: the developer half of the split is passed on
doSetActiveSnapDeveloper(t) ==
    /\ fn[t] = "doSetActiveSnap"
    /\ \/ StateLock(t)
       \/ TaskGet(t, "setActiveState")
       \/ StateUnlock(t)
       \/ BackendCall(t, [method |-> "SetActive",
                          name |-> SplitDeveloper(local[t].name)[2],
                          active |-> local[t].active])
       \/ BackendReturn(t, {NoResult})

doSetActiveSnap(t) ==
    /\ fn[t] = "doSetActiveSnap"
    /\ \/ StateLock(t)
       \/ TaskGet(t, "setActiveState")
       \/ StateUnlock(t)
       \/ BackendCall(t, [method |-> "SetActive",
                          name |-> SplitDeveloper(local[t].name)[1],
                          active |-> local[t].active])
       \/ BackendReturn(t, {NoResult})

(***************************************************************************)
(* The two test handlers                                                   *)
(***************************************************************************)
fakeInstallSnap(t) ==
    /\ fn[t] = "fakeInstallSnap"
    /\ pc[t] = "start"
    /\ ret' = [ret EXCEPT ![t] = Nil]
    /\ pc' = [pc EXCEPT ![t] = "done"]
    /\ Log(t, "return")
    /\ UNCHANGED <<mgrVars, lifeVars, storeVars,
                   fn, local, getErr, backendRet, calls>>

\* variant: the failing test handler reads the payload under the lock first
fakeInstallSnapErrorReads(t) ==
    /\ fn[t] = "fakeInstallSnapError"
    /\ pc[t] = "start"
    /\ getErr' = [getErr EXCEPT ![t] = Get(t, "installState").err]
    /\ ret' = [ret EXCEPT ![t] =
                  IF Get(t, "installState").err # Nil
                  THEN Get(t, "installState").err
                  ELSE ErrFakeInstall]
    /\ pc' = [pc EXCEPT ![t] = "done"]
    /\ trace' = [trace EXCEPT ![t] = <<"Lock", "Get", "Unlock", "return">>]
    /\ UNCHANGED <<mgrVars, lifeVars, storeVars,
                   fn, local, backendRet, calls>>

fakeInstallSnapError(t) ==
    /\ fn[t] = "fakeInstallSnapError"
    /\ pc[t] = "start"
    /\ ret' = [ret EXCEPT ![t] = ErrFakeInstall]
    /\ pc' = [pc EXCEPT ![t] = "done"]
    /\ Log(t, "return")
    /\ UNCHANGED <<mgrVars, lifeVars, storeVars,
                   fn, local, getErr, backendRet, calls>>

(***************************************************************************)
(* Ensure, Wait, Stop                                                      *)
(***************************************************************************)
LifecycleCalls == mgrCalls["Ensure"] + mgrCalls["Wait"] + mgrCalls["Stop"]

\* TaskRunner.Ensure's error
RunnerEnsureResult == Nil

\* variant: Ensure reports a failure of its own
EnsureReturnsError ==
    /\ m # NilManager
    /\ LifecycleCalls < MaxCalls
    /\ mgrCalls' = [mgrCalls EXCEPT !["Ensure"] = @ + 1]
    /\ runnerCalls' = [runnerCalls EXCEPT !["Ensure"] = @ + 1]
    /\ runnerEnsureRet' = RunnerEnsureResult
    /\ ensureRet' = "ensure failed"
    /\ UNCHANGED <<mgrVars, tomb, storeVars, taskVars>>

Ensure ==
    /\ m # NilManager
    /\ LifecycleCalls < MaxCalls
    /\ mgrCalls' = [mgrCalls EXCEPT !["Ensure"] = @ + 1]
    /\ runnerCalls' = [runnerCalls EXCEPT !["Ensure"] = @ + 1]
    /\ runnerEnsureRet' = RunnerEnsureResult
    /\ ensureRet' = Nil
    /\ UNCHANGED <<mgrVars, tomb, storeVars, taskVars>>

Wait ==
    /\ m # NilManager
    /\ LifecycleCalls < MaxCalls
    /\ mgrCalls' = [mgrCalls EXCEPT !["Wait"] = @ + 1]
    /\ runnerCalls' = [runnerCalls EXCEPT !["Wait"] = @ + 1]
    /\ UNCHANGED <<mgrVars, ensureRet, runnerEnsureRet, tomb,
                   storeVars, taskVars>>

\* TaskRunner.Stop kills the tomb of every handler that is in flight
Killed ==
    [t \in TaskIds |->
        IF pc[t] \in InFlight /\ ~tomb[t].dying
        THEN [dying |-> TRUE, calls |-> Len(calls[t])]
        ELSE tomb[t]]

\* variant: Stop drops the manager's runner once it has stopped it
StopClearsRunner ==
    /\ m # NilManager
    /\ LifecycleCalls < MaxCalls
    /\ mgrCalls' = [mgrCalls EXCEPT !["Stop"] = @ + 1]
    /\ runnerCalls' = [runnerCalls EXCEPT !["Stop"] = @ + 1]
    /\ tomb' = Killed
    /\ m' = [m EXCEPT !.runner = Nil]
    /\ UNCHANGED <<mgrErr, handlers, ensureRet, runnerEnsureRet,
                   storeVars, taskVars>>

\* variant: Stop forwards to the runner's Wait
StopCallsWait ==
    /\ m # NilManager
    /\ LifecycleCalls < MaxCalls
    /\ mgrCalls' = [mgrCalls EXCEPT !["Stop"] = @ + 1]
    /\ runnerCalls' = [runnerCalls EXCEPT !["Wait"] = @ + 1]
    /\ tomb' = Killed
    /\ UNCHANGED <<mgrVars, ensureRet, runnerEnsureRet, storeVars, taskVars>>

Stop ==
    /\ m # NilManager
    /\ LifecycleCalls < MaxCalls
    /\ mgrCalls' = [mgrCalls EXCEPT !["Stop"] = @ + 1]
    /\ runnerCalls' = [runnerCalls EXCEPT !["Stop"] = @ + 1]
    /\ tomb' = Killed
    /\ UNCHANGED <<mgrVars, ensureRet, runnerEnsureRet, storeVars, taskVars>>

\* any step of the handler invocation of task t
HandlerStep(t) ==
    \/ doInstallSnap(t)
    \/ doUpdateSnap(t)
    \/ doRemoveSnap(t)
    \/ doPurgeSnap(t)
    \/ doRollbackSnap(t)
    \/ doSetActiveSnap(t)
    \/ fakeInstallSnap(t)
    \/ fakeInstallSnapError(t)

(***************************************************************************)
(* Specification                                                           *)
(***************************************************************************)
Next ==
    \/ Manager
    \/ Ensure
    \/ Wait
    \/ Stop
    \/ \E t \in TaskIds : RunnerStart(t)
    \/ \E t \in TaskIds : doInstallSnap(t)
    \/ \E t \in TaskIds : doUpdateSnap(t)
    \/ \E t \in TaskIds : doRemoveSnap(t)
    \/ \E t \in TaskIds : doPurgeSnap(t)
    \/ \E t \in TaskIds : doRollbackSnap(t)
    \/ \E t \in TaskIds : doSetActiveSnap(t)
    \/ \E t \in TaskIds : fakeInstallSnap(t)
    \/ \E t \in TaskIds : fakeInstallSnapError(t)

Spec == Init /\ [][Next]_vars

\* the Go scheduler runs every goroutine that can take a step: a handler
\* that is not waiting for the store lock goes on, and the backend call and
\* the Get return
FairSpec == Spec /\ \A t \in TaskIds : WF_vars(HandlerStep(t))

TypeOK ==
    /\ locked \in BOOLEAN
    /\ owner \in TaskIds \cup {NoTask}
    /\ \A t \in TaskIds :
          pc[t] \in {"idle", "start", "locked", "got", "unlocked",
                     "backend", "done"}

(***************************************************************************)
(* Properties                                                              *)
(***************************************************************************)
IsProd(t) == fn[t] \in ProdHandlers
GetFailed(t) == getErr[t] \notin {Unset, Nil}
SplitKinds == {"remove-snap", "purge-snap", "rollback-snap", "set-active-snap"}
Count(seq, op) == Cardinality({i \in 1..Len(seq) : seq[i] = op})

\* the payload struct a task was enqueued with
Payload(t) == Decode(PayloadType(data[t].kind), data[t].blob)

MethodOfKind(kind) ==
    CASE kind = "install-snap" -> "Install"
      [] kind = "update-snap" -> "Update"
      [] kind = "remove-snap" -> "Remove"
      [] kind = "purge-snap" -> "Purge"
      [] kind = "rollback-snap" -> "Rollback"
      [] kind = "set-active-snap" -> "SetActive"

\* C1: a production handler whose Get failed has released the store lock
\* by the time it has returned: it is not the holder of the lock.
C1_LockReleasedOnGetFailure ==
    \A t \in TaskIds :
        (IsProd(t) /\ pc[t] = "done" /\ GetFailed(t)) => owner # t

\* C2: a production handler that is inside its backend call does not hold
\* the store lock: it is not the holder and has released what it acquired.
C2_NoLockDuringBackendCall ==
    \A t \in TaskIds :
        (IsProd(t) /\ pc[t] = "backend") =>
            /\ owner # t
            /\ Count(trace[t], "Lock") = 1
            /\ Count(trace[t], "Unlock") = 1

\* a second handler holds the lock while the first one's backend call is
\* in flight
C2_Witness ==
    \E t, u \in TaskIds :
        /\ t # u
        /\ IsProd(t) /\ pc[t] = "backend"
        /\ locked /\ owner = u /\ pc[u] = "locked"

\* C3: a production handler whose Get failed with e has returned e and has
\* called no backend method.
C3_GetErrorReturnedUnchanged ==
    \A t \in TaskIds :
        (IsProd(t) /\ GetFailed(t)) =>
            /\ pc[t] = "done"
            /\ ret[t] = getErr[t]
            /\ calls[t] = <<>>
            /\ trace[t] = <<"Lock", "Get">>

C3_Witness ==
    \E t, u \in TaskIds :
        /\ fn[t] = "doInstallSnap" /\ ret[t] = ErrNoState
        /\ fn[u] = "doRemoveSnap" /\ pc[u] = "done" /\ ret[u] \in BackendErrors

\* C4: a production handler whose Get succeeded returns the error value of
\* its backend call, whatever the result object of Install and Rollback.
C4_BackendErrorReturnedUnchanged ==
    \A t \in TaskIds :
        (IsProd(t) /\ pc[t] = "done" /\ getErr[t] = Nil) =>
            /\ backendRet[t].err \in BackendErrors
            /\ ret[t] = backendRet[t].err

C4_Witness ==
    \E t, u \in TaskIds :
        /\ fn[t] = "doInstallSnap" /\ pc[t] = "done"
        /\ backendRet[t] = [err |-> ErrBackend, res |-> "snap"]
        /\ ret[t] = ErrBackend
        /\ fn[u] = "doInstallSnap" /\ pc[u] = "done"
        /\ backendRet[u] = [err |-> Nil, res |-> "nil-result"]
        /\ ret[u] = Nil

\* C5: Remove, Purge, Rollback and SetActive receive the base name of the
\* payload's name (f.b gives f), Install and Update the name unsplit.
C5_BackendNameByKind ==
    \A t \in TaskIds : \A i \in 1..Len(calls[t]) :
        LET name == Payload(t).name
            passed == calls[t][i].name
        IN  IF data[t].kind \in SplitKinds
            THEN /\ passed = SplitDeveloper(name)[1]
                 /\ name = <<"f", ".", "b">> => passed = <<"f">>
            ELSE passed = name

C5_Witness ==
    \E t, u \in TaskIds :
        /\ data[t].kind = "remove-snap" /\ Len(calls[t]) = 1
        /\ Payload(t).name = <<"f", ".", "b">>
        /\ calls[t][1].name = <<"f">>
        /\ data[u].kind = "install-snap" /\ Len(calls[u]) = 1
        /\ Payload(u).name = <<"f", ".", "b">>
        /\ calls[u][1].name = <<"f", ".", "b">>

\* C6: the handler of a kind calls the backend method of that kind and
\* passes every non-name field of the payload with the payload's value.
C6_MethodAndFieldsVerbatim ==
    \A t \in TaskIds : \A i \in 1..Len(calls[t]) :
        LET type == PayloadType(data[t].kind)
            c == calls[t][i]
        IN  /\ c.method = MethodOfKind(data[t].kind)
            /\ DOMAIN c = Fields(type) \cup {"method"}
            /\ \A f \in Fields(type) \ {"name"} : c[f] = Payload(t)[f]

C6_Witness ==
    \E t \in TaskIds :
        /\ data[t].kind = "install-snap"
        /\ data[t].tag = "ok"
        /\ "flags" \notin DOMAIN data[t].blob
        /\ calls[t] = <<[method |-> "Install", name |-> <<"f", ".", "b">>,
                         channel |-> "stable", flags |-> 0]>>

\* C7: for Remove, Purge, Rollback and SetActive a payload name without a
\* developer suffix reaches the backend unchanged, and the handler's outcome
\* is the backend's.
C7_BareNameUnchanged ==
    \A t \in TaskIds :
        (/\ data[t].kind \in SplitKinds
         /\ data[t].tag = "ok"
         /\ Dots(Payload(t).name) = {}) =>
            /\ \A i \in 1..Len(calls[t]) : calls[t][i].name = Payload(t).name
            /\ pc[t] = "done" => /\ Len(calls[t]) = 1
                                 /\ ret[t] = backendRet[t].err
                                 /\ ret[t] \in BackendErrors

C7_Witness ==
    \E t \in TaskIds :
        /\ data[t].kind = "set-active-snap"
        /\ data[t].tag = "ok"
        /\ Payload(t).name = <<"f", "b">>
        /\ pc[t] = "done"
        /\ calls[t][1].name = <<"f", "b">>
        /\ ret[t] = Nil

\* C8: every call of the manager's Ensure, Wait or Stop makes exactly one
\* call of the runner's operation of that name and none of the other two;
\* the runner is called by no other step.
C8_LifecycleForwarded ==
    [][/\ \A o \in LifecycleOps :
             mgrCalls'[o] = mgrCalls[o] + 1 =>
                 runnerCalls' = [runnerCalls EXCEPT ![o] = @ + 1]
       /\ mgrCalls' = mgrCalls => runnerCalls' = runnerCalls]_vars

C8_Witness ==
    /\ mgrCalls = [o \in LifecycleOps |-> IF o = "Wait" THEN 0 ELSE 1]
    /\ runnerCalls = [o \in LifecycleOps |-> IF o = "Wait" THEN 0 ELSE 1]

\* C9: what the manager's Ensure returned is what the runner's Ensure
\* returned, which is nil.
C9_EnsureReturnsRunnerError ==
    mgrCalls["Ensure"] > 0 =>
        /\ ensureRet = runnerEnsureRet
        /\ ensureRet = Nil

C9_Witness ==
    /\ mgrCalls["Ensure"] = 2
    /\ ensureRet = Nil
    /\ runnerEnsureRet = Nil

\* C10: once Manager has returned, its error is nil and each of the six
\* production kind names has exactly one registration.
C10_ConstructionRegistersEachKindOnce ==
    m # NilManager =>
        /\ mgrErr = Nil
        /\ \A k \in ProdKinds : Cardinality(Registrations(k)) = 1
        /\ \A i, j \in 1..Len(handlers) :
              handlers[i][1] = handlers[j][1] => i = j

C10_Witness ==
    /\ m # NilManager
    /\ mgrErr = Nil
    /\ {handlers[i][1] : i \in 1..Len(handlers)} = Kinds
    /\ Len(handlers) = 8

FakeHandlers == {"fakeInstallSnap", "fakeInstallSnapError"}

\* C11: the two test handlers do nothing but return: fake-install-snap
\* returns nil and fake-install-snap-error its fixed error, whatever the
\* task's payload, without Lock, Get or a backend call.
C11_FakeHandlersFixedResult ==
    \A t \in TaskIds :
        fn[t] \in FakeHandlers =>
            /\ calls[t] = <<>>
            /\ getErr[t] = Unset
            /\ owner # t
            /\ trace[t] \in {<<>>, <<"return">>}
            /\ pc[t] \in {"start", "done"}
            /\ pc[t] = "done" =>
                  ret[t] = IF data[t].kind = "fake-install-snap"
                           THEN Nil
                           ELSE ErrFakeInstall

\* the failing test handler has returned for a task that carries a payload
C11_Witness ==
    \E t \in TaskIds :
        /\ data[t].kind = "fake-install-snap-error"
        /\ data[t].tag = "ok"
        /\ pc[t] = "done"
        /\ ret[t] = ErrFakeInstall

\* C12: a production handler whose Get succeeded makes one backend call,
\* after the Get and after the Unlock, and has made exactly one when it
\* returns.
C12_ExactlyOneBackendCall ==
    \A t \in TaskIds :
        (IsProd(t) /\ getErr[t] = Nil) =>
            /\ Len(calls[t]) <= 1
            /\ Len(calls[t]) = 1 <=> pc[t] \in {"backend", "done"}
            /\ Len(calls[t]) = 1 =>
                  /\ SubSeq(trace[t], 1, 4) =
                        <<"Lock", "Get", "Unlock", calls[t][1].method>>
                  /\ Count(trace[t], calls[t][1].method) = 1
            /\ pc[t] = "done" => Len(trace[t]) = 5 /\ trace[t][5] = "return"

C12_Witness ==
    \E t \in TaskIds :
        /\ fn[t] = "doPurgeSnap"
        /\ pc[t] = "done"
        /\ trace[t] = <<"Lock", "Get", "Unlock", "Purge", "return">>
        /\ Len(calls[t]) = 1

\* C13: no step writes to the store: every task's entry stays what it was,
\* and a production handler that has returned has read it with one Get.
C13_PayloadNeverWritten ==
    [][/\ data' = data
       /\ \A t \in TaskIds :
             (IsProd(t) /\ pc'[t] = "done") => Count(trace'[t], "Get") = 1]_vars

\* two handlers have run to their end on the store
C13_Witness ==
    \E t, u \in TaskIds :
        /\ t # u
        /\ IsProd(t) /\ pc[t] = "done" /\ Count(trace[t], "Get") = 1
        /\ IsProd(u) /\ pc[u] = "done" /\ Count(trace[u], "Get") = 1
        /\ data[t].tag = "ok"
        /\ data[u].tag = "none"

\* the outcome of a returned production handler, from the Get and the
\* backend results alone
ExpectedResult(t) == IF GetFailed(t) THEN getErr[t] ELSE backendRet[t].err

\* C14: a production handler whose tomb was killed while it ran goes on as
\* if it had not been: it is never held up except by the store lock, it makes
\* its backend call, and it returns what it would have returned.
C14_CancellationNotObserved ==
    \A t \in TaskIds :
        (IsProd(t) /\ tomb[t].dying) =>
            /\ pc[t] \in {"locked", "got", "unlocked", "backend"} =>
                  ENABLED HandlerStep(t)
            /\ (pc[t] = "start" /\ ~locked) => ENABLED HandlerStep(t)
            /\ pc[t] = "done" =>
                  /\ ret[t] = ExpectedResult(t)
                  /\ getErr[t] = Nil =>
                        /\ Len(calls[t]) = 1
                        /\ backendRet[t].err \in BackendErrors

\* Stop came before the handler had called the backend; the handler has
\* still made its backend call and returned the backend's nil
C14_Witness ==
    \E t \in TaskIds :
        /\ IsProd(t)
        /\ tomb[t] = [dying |-> TRUE, calls |-> 0]
        /\ pc[t] = "done"
        /\ Len(calls[t]) = 1
        /\ ret[t] = Nil

RegisteredKinds(h) == {h[i][1] : i \in 1..Len(h)}

\* C15: the manager exists only with all eight kinds registered; the
\* registrations change only in the step that constructs it, before any
\* lifecycle call, and the runner is called only once it is constructed.
C15_RegisteredBeforeReturn ==
    [][/\ m' # NilManager =>
             /\ RegisteredKinds(handlers') = Kinds
             /\ Len(handlers') = 8
       /\ handlers' # handlers =>
             /\ m = NilManager
             /\ m' # NilManager
             /\ runnerCalls = [o \in LifecycleOps |-> 0]
       /\ runnerCalls' # runnerCalls =>
             /\ m # NilManager
             /\ RegisteredKinds(handlers) = Kinds]_vars

\* a test handler and a lifecycle call have run on the constructed manager
C15_Witness ==
    /\ m # NilManager
    /\ Len(handlers) = 8
    /\ runnerCalls["Ensure"] = 1
    /\ runnerCalls["Wait"] = 1
    /\ \E t \in TaskIds : fn[t] = "fakeInstallSnap" /\ pc[t] = "done"

\* the error Get gives for a task's entry, nil for a payload
EntryError(t) ==
    CASE data[t].tag = "ok" -> Nil
      [] data[t].tag = "none" -> ErrNoState
      [] data[t].tag = "malformed" -> ErrDecode

\* C16: no step after construction changes the manager's state, backend and
\* runner fields, and what a production handler returns is fixed by its
\* task's entry and its backend result.
C16_ManagerUnchangedByHandling ==
    [][/\ m # NilManager => m' = m
       /\ \A t \in TaskIds :
             (fn'[t] \in ProdHandlers /\ pc'[t] = "done") =>
                 ret'[t] = IF EntryError(t) = Nil
                           THEN backendRet'[t].err
                           ELSE EntryError(t)]_vars

\* two handlers have returned different results on the same manager, with
\* a Stop in between
C16_Witness ==
    \E t, u \in TaskIds :
        /\ m = [state |-> "s", backend |-> "defaultBackend",
                runner |-> "runner"]
        /\ runnerCalls["Stop"] = 1
        /\ data[t] = data[u]
        /\ fn[t] \in ProdHandlers
        /\ pc[t] = "done" /\ ret[t] = ErrBackend
        /\ pc[u] = "done" /\ ret[u] = Nil

\* C17: every handler invocation that has started eventually returns.
C17_EveryHandlerReturns ==
    \A t \in TaskIds : (pc[t] = "start") ~> (pc[t] = "done")

\* C18: a production handler that has returned has called Lock once and
\* Unlock as often as Lock, and no Unlock comes before its Lock.
C18_LockCallsBalanced ==
    \A t \in TaskIds :
        IsProd(t) =>
            /\ Count(trace[t], "Lock") <= 1
            /\ \A i \in 1..Len(trace[t]) :
                  trace[t][i] = "Unlock" =>
                      \E j \in 1..(i - 1) : trace[t][j] = "Lock"
            /\ pc[t] = "done" =>
                  /\ Count(trace[t], "Lock") = 1
                  /\ Count(trace[t], "Unlock") = Count(trace[t], "Lock")

====
